---- MODULE Spec2Model ----
(***************************************************************************)
(* Model of routing.KBucket (src/routing/kbucket.go) and of the node       *)
(* records it stores (src/node/id.go, src/node/node.go).                   *)
(*                                                                         *)
(* A Go slice is a header (array, offset, len, cap) over a backing array;  *)
(* the model keeps the backing arrays in `arrays` and the header of        *)
(* kb.nodes in `nodes`, so that append, re-slicing and the in-place        *)
(* deletion idiom behave as they do in Go.  Callers are goroutines that    *)
(* call the mutex-protected methods of one shared bucket; every statement  *)
(* that assigns kb.nodes is a step of its own.                             *)
(***************************************************************************)
EXTENDS Integers, Sequences, FiniteSets, TLC

\* ------------------------------------------------------------------ bounds
MaxK == 2          \* bucket capacities explored: ksize \in 0..MaxK
NumIDs == 3        \* distinct NodeIDs the callers use
NumAddrs == 2      \* distinct addresses a record of one NodeID may carry
NumProcs == 2      \* concurrent callers
MaxWrites == 1     \* assignments a caller makes to slices Nodes() gave it
NumXorBytes == 4   \* byte values the NodeIDs given to XOR are made of

\* ------------------------------------------------------- program constants
IDLen == 20        \* type NodeID [20]byte
Uint8Mod == 256    \* width of uint8 (ksize, Size())

Procs == 1..NumProcs
\* Backing arrays alive at once: that of kb.nodes, one per caller holding a
\* slice Nodes() returned, and the one append is filling.
ArrIds == 1..(NumProcs + 2)

\* ------------------------------------------------------------------ NodeID
\* The identifiers used by the callers: 20-byte arrays differing in the
\* last byte.
MkID(n) == [i \in 1..IDLen |-> IF i = IDLen THEN n ELSE 0]

IdPool == {MkID(n) : n \in 1..NumIDs}

\* func (id NodeID) Equals(other NodeID) bool { return id == other }
Equals(id, other) == id = other

\* ------------------------------------------------------------------- Node
\* type Node struct { id; address; port }
Port == {8080}

NodePool == [id : IdPool, address : 1..NumAddrs, port : Port]

\* The zero value of a slice cell (a nil node.INode).
NilNode == [id |-> <<>>, address |-> 0, port |-> 0]

\* func (n *Node) ID() NodeID
ID(n) == n.id

\* What a call hands back to its caller: nothing, a bool, or a uint8/int.
\* (Nodes() hands back a slice header.)
NoValue == [none |-> TRUE]
BoolValue(b) == [bool |-> b]
IntValue(n) == [int |-> n]

\* ------------------------------------------------------------------ state
VARIABLES
    ksize,     \* kb.ksize
    arrays,    \* the heap: backing array id -> its cells (<<>> = not allocated)
    nodes,     \* kb.nodes: slice header [arr, off, len, cap]; arr = 0: no array
    mu,        \* kb.mu: 0 = unlocked, otherwise the goroutine holding it
    pc,        \* per goroutine: position in the method it is executing
    op,        \* per goroutine: the method being executed
    arg,       \* per goroutine: the argument (a node for Add, a NodeID otherwise)
    idx,       \* per goroutine: loop variable i of the matching entry, plus one
    ret,       \* per goroutine: the value returned
    crashed,   \* an unrecovered panic has terminated the program
    entry,     \* history: the entries when the lock was last acquired
    touched,   \* history: the NodeIDs ever added, by their latest Add, oldest first
    quiet,     \* history: whether a Clear has completed with no Add started since
    xin,       \* the NodeIDs handed to the identifier operations
    xout       \* the results of the identifier operations, by name

\* The bucket, its callers and the history of the bucket's calls.
bvars == <<ksize, arrays, nodes, mu, pc, op, arg, idx, ret, crashed, entry, touched>>

vars == <<ksize, arrays, nodes, mu, pc, op, arg, idx, ret, crashed, entry, touched,
          quiet, xin, xout>>

\* ----------------------------------------------------------------- slices
NilSlice == [arr |-> 0, off |-> 0, len |-> 0, cap |-> 0]

\* The elements s[0..len-1] of a slice over heap A.
ViewOf(A, s) == [k \in 1..s.len |-> A[s.arr][s.off + k]]

Max(a, b) == IF a > b THEN a ELSE b

\* Go runtime growslice for append of one element to a full slice of
\* pointer-sized pairs below 256 elements: double, or the needed length
\* (the rounding up to an allocation size class is left out).
GrowCap(oldcap, needed) == Max(needed, 2 * oldcap)

\* Garbage collection: an array no slice refers to is released, and a cell
\* that is an element of no slice (before its offset or past its length)
\* is never read again; it is cleared.
Collect(A, roots) ==
    [a \in ArrIds |->
        IF \E s \in roots : s.arr = a
        THEN [k \in 1..Len(A[a]) |->
                IF \E s \in roots : s.arr = a /\ k > s.off /\ k <= s.off + s.len
                THEN A[a][k] ELSE NilNode]
        ELSE <<>>]

FreeArr(A) == CHOOSE a \in ArrIds : A[a] = <<>> /\ \A b \in ArrIds : A[b] = <<>> => a <= b

\* make([]node.INode, 0, n)
MakeSlice(n) ==
    IF n = 0 THEN [arrays |-> [a \in ArrIds |-> <<>>], s |-> NilSlice]
    ELSE [arrays |-> [a \in ArrIds |-> IF a = 1 THEN [k \in 1..n |-> NilNode] ELSE <<>>],
          s |-> [arr |-> 1, off |-> 0, len |-> 0, cap |-> n]]

\* append(s, x): in place when len < cap, otherwise into a new array.
AppendOne(A, s, x) ==
    IF s.len < s.cap
    THEN [arrays |-> [A EXCEPT ![s.arr][s.off + s.len + 1] = x],
          s |-> [s EXCEPT !.len = @ + 1]]
    ELSE LET a == FreeArr(A)
             c == GrowCap(s.cap, s.len + 1)
             old == ViewOf(A, s)
         IN [arrays |-> [A EXCEPT ![a] = [k \in 1..c |->
                            IF k <= s.len THEN old[k]
                            ELSE IF k = s.len + 1 THEN x ELSE NilNode]],
             s |-> [arr |-> a, off |-> 0, len |-> s.len + 1, cap |-> c]]

\* append(s[:i], s[i+1:]...) with i = j - 1: the cells after position j move
\* down by one inside the same array; the last cell keeps its old value.
DeleteAt(A, s, j) ==
    [arrays |-> [A EXCEPT ![s.arr] = [k \in 1..Len(@) |->
                    IF k >= s.off + j /\ k < s.off + s.len THEN @[k + 1] ELSE @[k]]],
     s |-> [s EXCEPT !.len = @ - 1]]

\* Variant: the cells are not moved, the slice only gets shorter, so the
\* last element goes instead of the one at j.
DeleteAt_DropsLast(A, s, j) == [arrays |-> A, s |-> [s EXCEPT !.len = @ - 1]]

\* Variant: s[:i] alone, the elements after the match are lost too.
DeleteAt_Truncates(A, s, j) == [arrays |-> A, s |-> [s EXCEPT !.len = j - 1]]

\* kb.nodes = append(kb.nodes[:i], kb.nodes[i+1:]...) in Add (kbucket.go:95)
AddDelete(A, s, j) == DeleteAt(A, s, j)

\* kb.nodes = append(kb.nodes[:i], kb.nodes[i+1:]...) in Remove (kbucket.go:124)
RemoveDelete(A, s, j) == DeleteAt(A, s, j)

\* Variant: s[:len-1], the newest entry is dropped instead of the oldest.
Reslice1_DropsTail(s) == [s EXCEPT !.len = @ - 1]

\* s[1:] (the caller checks 1 <= len(s); otherwise the expression panics)
Reslice1(s) == [s EXCEPT !.off = @ + 1, !.len = @ - 1, !.cap = @ - 1]

\* s[1:] panics with "slice bounds out of range [1:0]" on an empty slice
Reslice1Panics(s) == s.len < 1

\* ----------------------------------------------------------------- KBucket
\* func (kb *KBucket) Nodes() []node.INode { return kb.nodes }
Nodes == nodes

\* The entries of the bucket, head first.
View == ViewOf(arrays, nodes)

\* func (kb *KBucket) KSize() uint8
KSize == ksize

IDs(v) == {ID(v[k]) : k \in 1..Len(v)}

\* for i, n := range kb.nodes { if n.ID().Equals(x) {...} }: the first
\* matching position (one-based), 0 when the loop ends without a match.
FirstMatch(v, id) ==
    IF \E k \in 1..Len(v) : Equals(ID(v[k]), id)
    THEN CHOOSE k \in 1..Len(v) :
            /\ Equals(ID(v[k]), id)
            /\ \A m \in 1..(k - 1) : ~Equals(ID(v[m]), id)
    ELSE 0

\* Variant: the scan never reports a match.
AddFind_NoMatch(v, id) == 0

\* the scan of Add (kbucket.go:93-94)
AddFind(v, id) == FirstMatch(v, id)

\* Variant: without a match the loop variable is left at the head entry.
RemoveFind_DefaultsToHead(v, id) ==
    IF FirstMatch(v, id) = 0 /\ Len(v) > 0 THEN 1 ELSE FirstMatch(v, id)

\* the scan of Remove (kbucket.go:122-123)
RemoveFind(v, id) == FirstMatch(v, id)

\* Variant: the loop returns in its first iteration.
ContainsScan_HeadOnly(v, id) == Len(v) > 0 /\ Equals(ID(v[1]), id)

\* the scan of Contains (kbucket.go:148-153)
ContainsScan(v, id) == FirstMatch(v, id) # 0

\* Variant: > for >=, the bucket grows to ksize + 1.
AtCapacity_Strict(len, k) == len > k

\* Variant: the head is dropped one entry early.
AtCapacity_Early(len, k) == len + 1 >= k

\* if len(kb.nodes) >= int(kb.ksize)
AtCapacity(len, k) == len >= k

\* Variant: > for >=, a bucket holding exactly ksize entries is not full.
IsFullOf_Strict(len, k) == len > k

\* return len(kb.nodes) >= int(kb.ksize)   (IsFull)
IsFullOf(len, k) == len >= k

\* Variant: the conversion keeps seven bits.
SizeOf_Narrow(len) == len % 128

\* return uint8(len(kb.nodes))
SizeOf(len) == len % Uint8Mod

\* The latest-Add order after an Add of id: id becomes the newest.
Touch(t, id) == SelectSeq(t, LAMBDA x : x # id) \o <<id>>

\* A NodeID argument, carried in the id field of the argument record.
IdArg(id) == [id |-> id, address |-> 0, port |-> 0]

\* ------------------------------------------------------------------- Init
\* NewKBucket(ksize): an empty slice of capacity ksize, an unlocked mutex.
Init ==
    /\ ksize \in 0..MaxK
    /\ arrays = MakeSlice(ksize).arrays
    /\ nodes = MakeSlice(ksize).s
    /\ mu = 0
    /\ pc = [p \in Procs |-> "idle"]
    /\ op = [p \in Procs |-> "none"]
    /\ arg = [p \in Procs |-> NilNode]
    /\ idx = [p \in Procs |-> 0]
    /\ ret = [p \in Procs |-> NoValue]
    /\ crashed = FALSE
    /\ entry = <<>>
    /\ touched = <<>>
    /\ quiet = "no"
    /\ xin = <<>>
    /\ xout = <<>>

\* ---------------------------------------------------------------- calls
\* A goroutine with no call in progress calls a method of the bucket.
Call(p, m, a) ==
    /\ ~crashed
    /\ pc[p] = "idle"
    /\ pc' = [pc EXCEPT ![p] = "lock"]
    /\ op' = [op EXCEPT ![p] = m]
    /\ arg' = [arg EXCEPT ![p] = a]
    /\ UNCHANGED <<ksize, arrays, nodes, mu, idx, ret, crashed, entry, touched>>

CallAdd(p) == \E n \in NodePool : Call(p, "Add", n)

CallRemove(p) == \E id \in IdPool : Call(p, "Remove", IdArg(id))

CallContains(p) == \E id \in IdPool : Call(p, "Contains", IdArg(id))

CallIsFull(p) == Call(p, "IsFull", NilNode)

CallSize(p) == Call(p, "Size", NilNode)

CallClear(p) == Call(p, "Clear", NilNode)

\* KSize reads the immutable kb.ksize without taking the lock.
CallKSize(p) ==
    /\ ~crashed
    /\ pc[p] = "idle"
    /\ pc' = [pc EXCEPT ![p] = "done"]
    /\ op' = [op EXCEPT ![p] = "KSize"]
    /\ ret' = [ret EXCEPT ![p] = IntValue(KSize)]
    /\ UNCHANGED <<ksize, arrays, nodes, mu, arg, idx, crashed, entry, touched>>

\* First statement of the body of each locking method.
Body(m) ==
    CASE m = "Add" -> "add_scan"
      [] m = "Remove" -> "rem_scan"
      [] m = "Contains" -> "con_scan"
      [] m = "IsFull" -> "isfull"
      [] m = "Size" -> "size"
      [] m = "Clear" -> "clear"

\* Variant: Lock returns although another goroutine holds the mutex.
MutexFree_Always(m) == TRUE

\* sync.Mutex: Lock returns only while no goroutine holds the mutex.
MutexFree(m) == m = 0

\* kb.mu.Lock(); defer kb.mu.Unlock()
Lock(p) ==
    /\ ~crashed
    /\ pc[p] = "lock"
    /\ MutexFree(mu)
    /\ mu' = p
    /\ pc' = [pc EXCEPT ![p] = Body(op[p])]
    /\ entry' = View
    /\ UNCHANGED <<ksize, arrays, nodes, op, arg, idx, ret, crashed, touched>>

\* Variant: the deferred call is skipped when the method panics.
DeferredRuns_NotOnPanic(at) == at = "unlock"

\* A deferred call runs when the function returns and when it panics.
DeferredRuns(at) == at \in {"unlock", "panic"}

\* The deferred kb.mu.Unlock(), run on return and on panic alike.  A panic
\* that nothing recovers then terminates the program.  The frame of the
\* call (its argument and loop variable) ends here; the returned value
\* stays with the caller until Return.
Unlock(p) ==
    /\ ~crashed
    /\ pc[p] \in {"unlock", "panic"}
    /\ mu' = IF DeferredRuns(pc[p]) THEN 0 ELSE mu
    /\ pc' = [pc EXCEPT ![p] = IF pc[p] = "panic" THEN "panicked" ELSE "done"]
    /\ crashed' = (pc[p] = "panic")
    /\ arg' = [arg EXCEPT ![p] = NilNode]
    /\ idx' = [idx EXCEPT ![p] = 0]
    /\ entry' = <<>>
    /\ UNCHANGED <<ksize, arrays, nodes, op, ret, touched>>

\* The call has returned to its caller.
Return(p) ==
    /\ ~crashed
    /\ pc[p] = "done"
    /\ pc' = [pc EXCEPT ![p] = "idle"]
    /\ op' = [op EXCEPT ![p] = "none"]
    /\ ret' = [ret EXCEPT ![p] = NoValue]
    /\ UNCHANGED <<ksize, arrays, nodes, mu, arg, idx, crashed, entry, touched>>

\* The slices Nodes() has returned that their callers still hold.
Held == {ret[q] : q \in {r \in Procs : op[r] = "Nodes" /\ pc[r] = "done"}}

\* kb.nodes = r.s over heap r.arrays; arrays left without a reference are
\* collected.
Assign(r) ==
    /\ nodes' = r.s
    /\ arrays' = Collect(r.arrays, {r.s} \cup Held)

\* ------------------------------------------------------------------ Add
\* for i, n := range kb.nodes { if n.ID().Equals(newNode.ID()) {
AddScan(p) ==
    /\ ~crashed
    /\ pc[p] = "add_scan"
    /\ LET i == AddFind(View, ID(arg[p])) IN
        /\ idx' = [idx EXCEPT ![p] = i]
        /\ pc' = [pc EXCEPT ![p] = IF i # 0 THEN "add_95" ELSE "add_101"]
    /\ UNCHANGED <<ksize, arrays, nodes, mu, op, arg, ret, crashed, entry, touched>>

\* kb.nodes = append(kb.nodes[:i], kb.nodes[i+1:]...)
Add95(p) ==
    /\ ~crashed
    /\ pc[p] = "add_95"
    /\ Assign(AddDelete(arrays, nodes, idx[p]))
    /\ pc' = [pc EXCEPT ![p] = "add_96"]
    /\ UNCHANGED <<ksize, mu, op, arg, idx, ret, crashed, entry, touched>>

\* kb.nodes = append(kb.nodes, newNode); return
Add96(p) ==
    /\ ~crashed
    /\ pc[p] = "add_96"
    /\ Assign(AppendOne(arrays, nodes, arg[p]))
    /\ touched' = Touch(touched, ID(arg[p]))
    /\ pc' = [pc EXCEPT ![p] = "unlock"]
    /\ UNCHANGED <<ksize, mu, op, arg, idx, ret, crashed, entry>>

\* if len(kb.nodes) >= int(kb.ksize) { kb.nodes = kb.nodes[1:] }
Add101(p) ==
    /\ ~crashed
    /\ pc[p] = "add_101"
    /\ IF AtCapacity(nodes.len, ksize)
       THEN IF Reslice1Panics(nodes)
            THEN /\ pc' = [pc EXCEPT ![p] = "panic"]
                 /\ UNCHANGED <<arrays, nodes>>
            ELSE /\ Assign([arrays |-> arrays, s |-> Reslice1(nodes)])
                 /\ pc' = [pc EXCEPT ![p] = "add_105"]
       ELSE /\ pc' = [pc EXCEPT ![p] = "add_105"]
            /\ UNCHANGED <<arrays, nodes>>
    /\ UNCHANGED <<ksize, mu, op, arg, idx, ret, crashed, entry, touched>>

\* kb.nodes = append(kb.nodes, newNode)
Add105(p) ==
    /\ ~crashed
    /\ pc[p] = "add_105"
    /\ Assign(AppendOne(arrays, nodes, arg[p]))
    /\ touched' = Touch(touched, ID(arg[p]))
    /\ pc' = [pc EXCEPT ![p] = "unlock"]
    /\ UNCHANGED <<ksize, mu, op, arg, idx, ret, crashed, entry>>

\* --------------------------------------------------------------- Remove
\* for i, n := range kb.nodes { if n.ID().Equals(id) {
RemScan(p) ==
    /\ ~crashed
    /\ pc[p] = "rem_scan"
    /\ LET i == RemoveFind(View, ID(arg[p])) IN
        /\ idx' = [idx EXCEPT ![p] = i]
        /\ pc' = [pc EXCEPT ![p] = IF i # 0 THEN "rem_124" ELSE "unlock"]
    /\ UNCHANGED <<ksize, arrays, nodes, mu, op, arg, ret, crashed, entry, touched>>

\* kb.nodes = append(kb.nodes[:i], kb.nodes[i+1:]...); return
Rem124(p) ==
    /\ ~crashed
    /\ pc[p] = "rem_124"
    /\ Assign(RemoveDelete(arrays, nodes, idx[p]))
    /\ pc' = [pc EXCEPT ![p] = "unlock"]
    /\ UNCHANGED <<ksize, mu, op, arg, idx, ret, crashed, entry, touched>>

\* ------------------------------------------- Contains, IsFull, Size, Clear
ConScan(p) ==
    /\ ~crashed
    /\ pc[p] = "con_scan"
    /\ pc' = [pc EXCEPT ![p] = "unlock"]
    /\ ret' = [ret EXCEPT ![p] = BoolValue(ContainsScan(View, ID(arg[p])))]
    /\ UNCHANGED <<ksize, arrays, nodes, mu, op, arg, idx, crashed, entry, touched>>

IsFull(p) ==
    /\ ~crashed
    /\ pc[p] = "isfull"
    /\ pc' = [pc EXCEPT ![p] = "unlock"]
    /\ ret' = [ret EXCEPT ![p] = BoolValue(IsFullOf(nodes.len, ksize))]
    /\ UNCHANGED <<ksize, arrays, nodes, mu, op, arg, idx, crashed, entry, touched>>

Size(p) ==
    /\ ~crashed
    /\ pc[p] = "size"
    /\ pc' = [pc EXCEPT ![p] = "unlock"]
    /\ ret' = [ret EXCEPT ![p] = IntValue(SizeOf(nodes.len))]
    /\ UNCHANGED <<ksize, arrays, nodes, mu, op, arg, idx, crashed, entry, touched>>

\* Variant: Clear leaves kb.nodes as it is.
ClearedSlice_Keeps(s) == s

\* the value Clear assigns to kb.nodes: nil
ClearedSlice(s) == NilSlice

\* kb.nodes = nil
Clear(p) ==
    /\ ~crashed
    /\ pc[p] = "clear"
    /\ Assign([arrays |-> arrays, s |-> ClearedSlice(nodes)])
    /\ pc' = [pc EXCEPT ![p] = "unlock"]
    /\ UNCHANGED <<ksize, mu, op, arg, idx, ret, crashed, entry, touched>>

\* ------------------------------------------------------------------ Spec
\* One step of goroutine p in a method of the bucket.
Step(p) ==
        \/ CallAdd(p) \/ CallRemove(p) \/ CallContains(p) \/ CallIsFull(p)
        \/ CallSize(p) \/ CallClear(p) \/ CallKSize(p)
        \/ Lock(p) \/ Unlock(p) \/ Return(p)
        \/ AddScan(p) \/ Add95(p) \/ Add96(p) \/ Add101(p) \/ Add105(p)
        \/ RemScan(p) \/ Rem124(p)
        \/ ConScan(p) \/ IsFull(p) \/ Size(p) \/ Clear(p)

Next == (\E p \in Procs : Step(p)) /\ UNCHANGED <<quiet, xin, xout>>

Spec == Init /\ [][Next]_vars

\* ------------------------------------------------------------ Nodes()
\* Nodes takes no lock: the caller is at line 59 while any other goroutine
\* may be inside a locked method.
CallNodes(p) ==
    /\ ~crashed
    /\ pc[p] = "idle"
    /\ pc' = [pc EXCEPT ![p] = "nodes_59"]
    /\ op' = [op EXCEPT ![p] = "Nodes"]
    /\ UNCHANGED <<ksize, arrays, nodes, mu, arg, idx, ret, crashed, entry, touched>>

\* return kb.nodes: the caller gets the slice header itself, over the
\* backing array the bucket goes on using.
NodesRead(p) ==
    /\ ~crashed
    /\ pc[p] = "nodes_59"
    /\ ret' = [ret EXCEPT ![p] = Nodes]
    /\ pc' = [pc EXCEPT ![p] = "done"]
    /\ UNCHANGED <<ksize, arrays, nodes, mu, op, arg, idx, crashed, entry, touched>>

\* The caller assigns to an element of the slice it was given: s[k] = n.
\* idx[p] counts the assignments the caller has made so far.
Mutate(p) ==
    /\ ~crashed
    /\ pc[p] = "done"
    /\ op[p] = "Nodes"
    /\ idx[p] < MaxWrites
    /\ \E k \in 1..ret[p].len, n \in NodePool :
          /\ arrays[ret[p].arr][ret[p].off + k] # n
          /\ arrays' = [arrays EXCEPT ![ret[p].arr][ret[p].off + k] = n]
    /\ idx' = [idx EXCEPT ![p] = idx[p] + 1]
    /\ UNCHANGED <<ksize, nodes, mu, pc, op, arg, ret, crashed, entry, touched>>

\* The caller lets go of the slice it was given.
ReturnNodes(p) ==
    /\ ~crashed
    /\ pc[p] = "done"
    /\ op[p] = "Nodes"
    /\ pc' = [pc EXCEPT ![p] = "idle"]
    /\ op' = [op EXCEPT ![p] = "none"]
    /\ ret' = [ret EXCEPT ![p] = NoValue]
    /\ arrays' = Collect(arrays, {nodes} \cup
                          {ret[q] : q \in {r \in Procs \ {p} :
                                      op[r] = "Nodes" /\ pc[r] = "done"}})
    /\ UNCHANGED <<ksize, nodes, mu, arg, idx, crashed, entry, touched>>

\* The goroutine that reads the bucket through Nodes(); the others call
\* Add, Remove and Clear.
Reader == NumProcs

\* The nodes the bucket's own callers add: one record per NodeID.  The nodes
\* at the other addresses are the ones only the reader writes.
OwnNodes == {n \in NodePool : n.address = 1}

CallAddOwn(p) == \E n \in OwnNodes : Call(p, "Add", n)

StepNodes(p) ==
    \/ /\ p # Reader
       /\ \/ CallAddOwn(p) \/ CallRemove(p) \/ CallClear(p)
          \/ Lock(p) \/ Unlock(p) \/ Return(p)
          \/ AddScan(p) \/ Add95(p) \/ Add96(p) \/ Add101(p) \/ Add105(p)
          \/ RemScan(p) \/ Rem124(p)
          \/ Clear(p)
    \/ /\ p = Reader
       /\ CallNodes(p) \/ NodesRead(p) \/ Mutate(p) \/ ReturnNodes(p)

NextNodes == (\E p \in Procs : StepNodes(p)) /\ UNCHANGED <<quiet, xin, xout>>

\* Buckets that can hold a node (NewKBucket with ksize >= 1).
InitNodes == Init /\ ksize >= 1

SpecNodes == InitNodes /\ [][NextNodes]_vars

\* ------------------------------------------- Add then Remove, per goroutine
\* n := node.NewNode([]byte{byte(i)}, address, port): goroutine p's own
\* node, the NodeIDs of different goroutines being different.
Mine(p) == [id |-> MkID(p), address |-> 1, port |-> CHOOSE q \in Port : TRUE]

\* kb.Add(n), the first statement of the goroutine.
CallAddMine(p) ==
    /\ \A k \in 1..Len(touched) : touched[k] # MkID(p)
    /\ Call(p, "Add", Mine(p))

\* kb.Remove(n.ID()), once kb.Add(n) has returned.
CallRemoveMine(p) ==
    /\ \E k \in 1..Len(touched) : touched[k] = MkID(p)
    /\ Call(p, "Remove", IdArg(MkID(p)))

\* The goroutine has returned from Remove and ended (wg.Done()).
Ended(p) == pc[p] = "done" /\ op[p] = "Remove"

StepAddRemove(p) ==
    \/ CallAddMine(p) \/ CallRemoveMine(p)
    \/ Lock(p) \/ Unlock(p)
    \/ (~Ended(p) /\ Return(p))
    \/ AddScan(p) \/ Add101(p) \/ Add105(p)
    \/ RemScan(p) \/ Rem124(p)

NextAddRemove ==
    (\E p \in Procs : StepAddRemove(p)) /\ UNCHANGED <<quiet, xin, xout>>

SpecAddRemove == InitNodes /\ [][NextAddRemove]_vars

\* ------------------------------------------------------------- NewNode
\* The byte slices given to NewNode: nil, "node_1", "test_node_data".
DataPool ==
    { <<>>,
      <<110, 111, 100, 101, 95, 49>>,
      <<116, 101, 115, 116, 95, 110, 111, 100, 101, 95, 100, 97, 116, 97>> }

\* sha1.Sum(data) on the slices of DataPool.
Sha1Sum(data) ==
    CASE data = <<>> ->
           <<218, 57, 163, 238, 94, 107, 75, 13, 50, 85,
             191, 239, 149, 96, 24, 144, 175, 216, 7, 9>>
      [] data = <<110, 111, 100, 101, 95, 49>> ->
           <<42, 123, 217, 179, 208, 147, 113, 22, 115, 238,
             25, 4, 253, 158, 226, 37, 16, 220, 250, 68>>
      [] data = <<116, 101, 115, 116, 95, 110, 111, 100, 101, 95, 100, 97, 116, 97>> ->
           <<198, 37, 58, 212, 92, 68, 85, 219, 107, 229,
             19, 176, 186, 6, 108, 150, 68, 237, 90, 172>>

\* func NewNodeID(data []byte) NodeID
NewNodeID(data) == Sha1Sum(data)

\* Variant: the port is left at its zero value.
NewNode_ZeroPort(data, address, port) ==
    [id |-> NewNodeID(data), address |-> address, port |-> 0]

\* func NewNode(data []byte, address net.IP, port uint16) *Node
NewNode(data, address, port) ==
    [id |-> NewNodeID(data), address |-> address, port |-> port]

\* func (n *Node) Address() net.IP
Address(n) == n.address

\* func (n *Node) Port() uint16
PortOf(n) == n.port

\* xin holds the arguments of a NewNode call, xout the node it returned
\* (none before the call); goroutine 1 then uses the bucket, with that node
\* and with others.
InitNode ==
    /\ ksize \in 0..MaxK
    /\ arrays = MakeSlice(ksize).arrays
    /\ nodes = MakeSlice(ksize).s
    /\ mu = 0
    /\ pc = [p \in Procs |-> "idle"]
    /\ op = [p \in Procs |-> "none"]
    /\ arg = [p \in Procs |-> NilNode]
    /\ idx = [p \in Procs |-> 0]
    /\ ret = [p \in Procs |-> NoValue]
    /\ crashed = FALSE
    /\ entry = <<>>
    /\ touched = <<>>
    /\ quiet = "no"
    /\ xin \in [data : DataPool, address : 1..NumAddrs, port : Port]
    /\ xout = <<>>

CreateNode ==
    /\ xout = <<>>
    /\ xout' = <<NewNode(xin.data, xin.address, xin.port)>>
    /\ UNCHANGED <<bvars, quiet, xin>>

CallAddNew(p) == xout # <<>> /\ Call(p, "Add", xout[1])

CallRemoveNew(p) == xout # <<>> /\ Call(p, "Remove", IdArg(ID(xout[1])))

CallContainsNew(p) == xout # <<>> /\ Call(p, "Contains", IdArg(ID(xout[1])))

StepNode(p) ==
    \/ CallAddNew(p) \/ CallRemoveNew(p) \/ CallContainsNew(p)
    \/ CallAddOwn(p) \/ CallClear(p) \/ CallIsFull(p) \/ CallSize(p)
    \/ Lock(p) \/ Unlock(p) \/ Return(p)
    \/ AddScan(p) \/ Add95(p) \/ Add96(p) \/ Add101(p) \/ Add105(p)
    \/ RemScan(p) \/ Rem124(p)
    \/ ConScan(p) \/ IsFull(p) \/ Size(p) \/ Clear(p)

NextNode ==
    \/ CreateNode
    \/ StepNode(1) /\ UNCHANGED <<quiet, xin, xout>>

SpecNode == InitNode /\ [][NextNode]_vars

\* ------------------------------------------------------ fair scheduling
\* The steps a goroutine takes between Lock and the return of its call.
Proceed(p) ==
    /\ \/ Unlock(p) \/ Return(p)
       \/ AddScan(p) \/ Add95(p) \/ Add96(p) \/ Add101(p) \/ Add105(p)
       \/ RemScan(p) \/ Rem124(p)
       \/ ConScan(p) \/ IsFull(p) \/ Size(p) \/ Clear(p)
    /\ UNCHANGED <<quiet, xin, xout>>

\* kb.mu.Lock() returning to goroutine p.
Acquire(p) == Lock(p) /\ UNCHANGED <<quiet, xin, xout>>

\* The callers' calls, with one record per NodeID.
Invoke(p) ==
    /\ \/ CallAddOwn(p) \/ CallRemove(p) \/ CallContains(p)
       \/ CallIsFull(p) \/ CallSize(p) \/ CallClear(p)
    /\ UNCHANGED <<quiet, xin, xout>>

\* Buckets of capacity 0 (Add panics) and 1 (Add evicts, refreshes, returns
\* from inside the loop).
InitFair == Init /\ ksize <= 1

NextFair == \E p \in Procs : Invoke(p) \/ Acquire(p) \/ Proceed(p)

\* The Go scheduler runs every runnable goroutine, and sync.Mutex hands the
\* mutex to a goroutine that has waited long (starvation mode), so a
\* goroutine blocked in Lock gets the mutex if it is released again and
\* again.  Nothing obliges a caller to make a call.  (Each of these steps
\* moves the goroutine's position, so pc serves as the subscript.)
FairSpec ==
    /\ InitFair
    /\ [][NextFair]_vars
    /\ \A p \in Procs : WF_pc(Proceed(p)) /\ SF_pc(Acquire(p))

\* ------------------------------------------------------ XOR, Distance
\* x ^ y on the low n bits.
RECURSIVE XorBits(_, _, _)
XorBits(x, y, n) ==
    IF n = 0 THEN 0
    ELSE (((x % 2) + (y % 2)) % 2) + 2 * XorBits(x \div 2, y \div 2, n - 1)

\* Variant: the bytes are added (modulo 256) instead.
XorByte_Sum(x, y) == (x + y) % Uint8Mod

\* id[i] ^ other[i] on bytes.
XorByte(x, y) == XorBits(x, y, 8)

\* Variant: the first byte of the result is id's own.
XOR_KeepsFirstByte(id, other) ==
    [i \in 1..IDLen |-> IF i = 1 THEN id[i] ELSE XorByte(id[i], other[i])]

\* func (id NodeID) XOR(other NodeID) NodeID
XOR(id, other) == [i \in 1..IDLen |-> XorByte(id[i], other[i])]

\* Variant: the distance is taken to the node itself.
Distance_OfSelf(n, other) == XOR(ID(n), ID(n))

\* func (n *Node) Distance(other INode) NodeID
Distance(n, other) == XOR(ID(n), ID(other))

\* The byte values 0x00, 0x55, 0xAA, 0xFF, 0x54, ...
XorBytePool == {(i * 85) % Uint8Mod : i \in 0..(NumXorBytes - 1)}

\* NodeIDs whose first and last bytes are drawn from the pool.
XorIdPool ==
    {[i \in 1..IDLen |-> IF i = 1 THEN h ELSE IF i = IDLen THEN l ELSE 0] :
        h \in XorBytePool, l \in XorBytePool}

\* NewNode(id, address, port) with NodeID id.
XorNode(id) == [id |-> id, address |-> 1, port |-> CHOOSE q \in Port : TRUE]

\* xin holds the NodeIDs a and b; xout collects the calls made on them with
\* their results.
InitXor ==
    /\ ksize = 0
    /\ arrays = MakeSlice(ksize).arrays
    /\ nodes = MakeSlice(ksize).s
    /\ mu = 0
    /\ pc = [p \in Procs |-> "idle"]
    /\ op = [p \in Procs |-> "none"]
    /\ arg = [p \in Procs |-> NilNode]
    /\ idx = [p \in Procs |-> 0]
    /\ ret = [p \in Procs |-> NoValue]
    /\ crashed = FALSE
    /\ entry = <<>>
    /\ touched = <<>>
    /\ quiet = "no"
    /\ xin \in XorIdPool \X XorIdPool
    /\ xout = {}

\* r := xin[i].XOR(xin[j])
CallXOR ==
    \E i, j \in 1..2 :
        /\ i # j
        /\ \A c \in xout : ~(c.f = "XOR" /\ c.a = xin[i] /\ c.b = xin[j])
        /\ xout' = xout \cup {[f |-> "XOR", a |-> xin[i], b |-> xin[j],
                                r |-> XOR(xin[i], xin[j])]}
        /\ UNCHANGED <<bvars, quiet, xin>>

\* r := n.Distance(m) for nodes n, m with the NodeIDs xin[i], xin[j]
CallDistance ==
    \E i, j \in 1..2 :
        /\ i # j
        /\ \A c \in xout : ~(c.f = "Distance" /\ c.a = xin[i] /\ c.b = xin[j])
        /\ xout' = xout \cup {[f |-> "Distance", a |-> xin[i], b |-> xin[j],
                                r |-> Distance(XorNode(xin[i]), XorNode(xin[j]))]}
        /\ UNCHANGED <<bvars, quiet, xin>>

NextXor == CallXOR \/ CallDistance

SpecXor == InitXor /\ [][NextXor]_vars

\* ------------------------------------------- XOR on three NodeIDs
\* var zero [20]byte
ZeroID == [i \in 1..IDLen |-> 0]

\* xin holds three NodeIDs; xout holds the call made on them with its
\* result, until the caller lets go of it and makes the next call.
InitMetric ==
    /\ ksize = 0
    /\ arrays = MakeSlice(ksize).arrays
    /\ nodes = MakeSlice(ksize).s
    /\ mu = 0
    /\ pc = [p \in Procs |-> "idle"]
    /\ op = [p \in Procs |-> "none"]
    /\ arg = [p \in Procs |-> NilNode]
    /\ idx = [p \in Procs |-> 0]
    /\ ret = [p \in Procs |-> NoValue]
    /\ crashed = FALSE
    /\ entry = <<>>
    /\ touched = <<>>
    /\ quiet = "no"
    /\ xin \in XorIdPool \X XorIdPool \X XorIdPool
    /\ xout = {}

\* r := xin[i].XOR(xin[j]), the two NodeIDs being the same one or not
XorOf ==
    \E i, j \in 1..3 :
        /\ xout = {}
        /\ xout' = {[f |-> "XOR", a |-> xin[i], b |-> xin[j],
                     r |-> XOR(xin[i], xin[j])]}
        /\ UNCHANGED <<bvars, quiet, xin>>

\* r := n.Distance(m), n and m being the same node or not
DistanceOf ==
    \E i, j \in 1..3 :
        /\ xout = {}
        /\ xout' = {[f |-> "Distance", a |-> xin[i], b |-> xin[j],
                     r |-> Distance(XorNode(xin[i]), XorNode(xin[j]))]}
        /\ UNCHANGED <<bvars, quiet, xin>>

\* r := xin[i].XOR(xin[j]).XOR(xin[j])
XorTwice ==
    \E i, j \in 1..3 :
        /\ xout = {}
        /\ xout' = {[f |-> "XOR.XOR", a |-> xin[i], b |-> xin[j],
                     r |-> XOR(XOR(xin[i], xin[j]), xin[j])]}
        /\ UNCHANGED <<bvars, quiet, xin>>

\* The three distances among the NodeIDs a, b, c = xin[1], xin[2], xin[3].
XorAmong ==
    /\ xout = {}
    /\ xout' = {[f |-> "XOR3", a |-> xin[1], b |-> xin[2], c |-> xin[3],
                 ac |-> XOR(xin[1], xin[3]),
                 ab |-> XOR(xin[1], xin[2]),
                 bc |-> XOR(xin[2], xin[3])]}
    /\ UNCHANGED <<bvars, quiet, xin>>

\* The caller is done with the result.
Discard ==
    /\ xout # {}
    /\ xout' = {}
    /\ UNCHANGED <<bvars, quiet, xin>>

NextMetric == XorOf \/ DistanceOf \/ XorTwice \/ XorAmong \/ Discard

SpecMetric == InitMetric /\ [][NextMetric]_vars

\* ------------------------------------------------- the bucket at 8 bits
\* The largest bucket a uint8 ksize allows, filled by one goroutine that
\* adds nodes of ever new NodeIDs (as the loop of TestKBucketAddConcurrency
\* does for its first 256 nodes) and asks for Size() in between.
MaxFresh == 257    \* NodeIDs the goroutine adds, one after the other

Uint8Max == Uint8Mod - 1

\* NewNodeID of the n-th input: identifiers that differ in the last two bytes.
SeqID(n) == [i \in 1..IDLen |->
                IF i = IDLen THEN n % Uint8Mod
                ELSE IF i = IDLen - 1 THEN n \div Uint8Mod ELSE 0]

\* kb.Add(node.NewNode([]byte{byte(i)}, address, port)) for the next i
CallAddFresh(p) ==
    /\ Len(touched) < MaxFresh
    /\ \E pt \in Port :
          Call(p, "Add", [id |-> SeqID(Len(touched) + 1), address |-> 1, port |-> pt])

\* NewKBucket(255)
InitSize ==
    /\ ksize = Uint8Max
    /\ arrays = MakeSlice(ksize).arrays
    /\ nodes = MakeSlice(ksize).s
    /\ mu = 0
    /\ pc = [p \in Procs |-> "idle"]
    /\ op = [p \in Procs |-> "none"]
    /\ arg = [p \in Procs |-> NilNode]
    /\ idx = [p \in Procs |-> 0]
    /\ ret = [p \in Procs |-> NoValue]
    /\ crashed = FALSE
    /\ entry = <<>>
    /\ touched = <<>>
    /\ quiet = "no"
    /\ xin = <<>>
    /\ xout = <<>>

NextSize ==
    /\ \/ CallAddFresh(1) \/ CallSize(1)
       \/ Lock(1) \/ Unlock(1) \/ Return(1)
       \/ AddScan(1) \/ Add101(1) \/ Add105(1)
       \/ Size(1)
    /\ UNCHANGED <<quiet, xin, xout>>

SpecSize == InitSize /\ [][NextSize]_vars

\* ------------------------------------------------- history of Clear calls
\* The value of `quiet` after a step of goroutine p: "no" once an Add is
\* called; when a Clear completes (its Unlock), "pending" if an Add called
\* earlier is still waiting for the lock, and "quiet" otherwise.
QuietAfter(p) ==
    IF pc[p] = "idle" /\ op'[p] = "Add" THEN "no"
    ELSE IF pc[p] = "unlock" /\ op[p] = "Clear"
         THEN IF \E q \in Procs : q # p /\ op[q] = "Add" /\ pc[q] = "lock"
              THEN "pending" ELSE "quiet"
         ELSE quiet

\* The bucket and its callers as in Spec, with the history of Clear kept.
NextQuiet ==
    /\ \E p \in Procs : Step(p) /\ quiet' = QuietAfter(p)
    /\ UNCHANGED <<xin, xout>>

SpecQuiet == Init /\ [][NextQuiet]_vars

\* ------------------------------------------- a new bucket beside a cleared one
\* One program calls the bucket's methods one after another.  Each time its
\* Clear returns it constructs a second bucket with NewKBucket(kb.KSize())
\* and from then on makes every call on both.  The second bucket is kept in
\* xin.kb, the value its last call returned in xout; the slice Nodes()
\* returned for it is xin.kb.held.
Client == 1

\* NewKBucket(k)
NewKBucket(k) ==
    [ksize |-> k, arrays |-> MakeSlice(k).arrays, nodes |-> MakeSlice(k).s,
     holding |-> FALSE, held |-> NilSlice, panicked |-> FALSE]

\* kb.nodes = r.s on bucket t
AssignOn(t, r) ==
    [t EXCEPT !.nodes = r.s,
              !.arrays = Collect(r.arrays,
                                 {r.s} \cup (IF t.holding THEN {t.held} ELSE {}))]

\* t.Add(n)
AddOn(t, n) ==
    LET i == AddFind(ViewOf(t.arrays, t.nodes), ID(n)) IN
    IF i # 0
    THEN LET d == AssignOn(t, AddDelete(t.arrays, t.nodes, i))
         IN AssignOn(d, AppendOne(d.arrays, d.nodes, n))
    ELSE IF AtCapacity(t.nodes.len, t.ksize)
         THEN IF Reslice1Panics(t.nodes)
              THEN [t EXCEPT !.panicked = TRUE]
              ELSE LET d == AssignOn(t, [arrays |-> t.arrays, s |-> Reslice1(t.nodes)])
                   IN AssignOn(d, AppendOne(d.arrays, d.nodes, n))
         ELSE AssignOn(t, AppendOne(t.arrays, t.nodes, n))

\* t.Remove(id)
RemoveOn(t, id) ==
    LET i == RemoveFind(ViewOf(t.arrays, t.nodes), id) IN
    IF i # 0 THEN AssignOn(t, RemoveDelete(t.arrays, t.nodes, i)) ELSE t

\* t.Clear()
ClearOn(t) == AssignOn(t, [arrays |-> t.arrays, s |-> ClearedSlice(t.nodes)])

\* The second bucket after method m with argument a.
After2(t, m, a) ==
    CASE m = "Add" -> AddOn(t, a)
      [] m = "Remove" -> RemoveOn(t, ID(a))
      [] m = "Clear" -> ClearOn(t)
      [] OTHER -> t

\* The value method m with argument a returns on the second bucket.
Ret2(t, m, a) ==
    CASE m = "Contains" -> BoolValue(ContainsScan(ViewOf(t.arrays, t.nodes), ID(a)))
      [] m = "IsFull" -> BoolValue(IsFullOf(t.nodes.len, t.ksize))
      [] m = "Size" -> IntValue(SizeOf(t.nodes.len))
      [] OTHER -> NoValue

InitFresh ==
    /\ ksize \in 0..MaxK
    /\ arrays = MakeSlice(ksize).arrays
    /\ nodes = MakeSlice(ksize).s
    /\ mu = 0
    /\ pc = [p \in Procs |-> "idle"]
    /\ op = [p \in Procs |-> "none"]
    /\ arg = [p \in Procs |-> NilNode]
    /\ idx = [p \in Procs |-> 0]
    /\ ret = [p \in Procs |-> NoValue]
    /\ crashed = FALSE
    /\ entry = <<>>
    /\ touched = <<>>
    /\ quiet = "no"
    /\ xin = [on |-> FALSE, kb |-> NewKBucket(ksize)]
    /\ xout = NoValue

\* The program calls a locked method, or KSize, while no Nodes() call of
\* its own is under way.
CallBoth ==
    /\ pc[Reader] # "nodes_59"
    /\ \/ CallAddOwn(Client) \/ CallRemove(Client) \/ CallContains(Client)
       \/ CallIsFull(Client) \/ CallSize(Client) \/ CallClear(Client)
    /\ UNCHANGED <<quiet, xin, xout>>

CallKSizeBoth ==
    /\ pc[Reader] # "nodes_59"
    /\ CallKSize(Client)
    /\ xout' = IntValue(xin.kb.ksize)
    /\ UNCHANGED <<quiet, xin>>

\* A statement of the method on the bucket that was cleared.
StepBoth ==
    /\ \/ Lock(Client)
       \/ AddScan(Client) \/ Add95(Client) \/ Add96(Client)
       \/ Add101(Client) \/ Add105(Client)
       \/ RemScan(Client) \/ Rem124(Client)
       \/ ConScan(Client) \/ IsFull(Client) \/ Size(Client) \/ Clear(Client)
    /\ UNCHANGED <<quiet, xin, xout>>

\* The method returns on the first bucket; the same call is made on the
\* second one.  When the method is Clear, the second bucket is constructed
\* anew.
UnlockBoth ==
    /\ Unlock(Client)
    /\ IF op[Client] = "Clear" /\ pc[Client] = "unlock"
       THEN /\ xin' = [on |-> TRUE, kb |-> NewKBucket(KSize)]
            /\ xout' = NoValue
       ELSE /\ xin' = IF xin.on
                      THEN [xin EXCEPT !.kb = After2(@, op[Client], arg[Client])]
                      ELSE xin
            /\ xout' = IF xin.on THEN Ret2(xin.kb, op[Client], arg[Client])
                       ELSE NoValue
    /\ UNCHANGED quiet

ReturnBoth ==
    /\ Return(Client)
    /\ xout' = NoValue
    /\ UNCHANGED <<quiet, xin>>

\* s := kb.Nodes() on both buckets.
CallNodesBoth ==
    /\ pc[Client] = "idle"
    /\ CallNodes(Reader)
    /\ UNCHANGED <<quiet, xin, xout>>

NodesBoth ==
    /\ NodesRead(Reader)
    /\ xin' = IF xin.on
              THEN [xin EXCEPT !.kb.holding = TRUE, !.kb.held = xin.kb.nodes]
              ELSE xin
    /\ UNCHANGED <<quiet, xout>>

\* The program lets go of the slices it was given.
ReturnNodesBoth ==
    /\ ReturnNodes(Reader)
    /\ xin' = [xin EXCEPT !.kb = [@ EXCEPT !.holding = FALSE, !.held = NilSlice,
                                           !.arrays = Collect(@, {xin.kb.nodes})]]
    /\ UNCHANGED <<quiet, xout>>

NextFresh ==
    \/ CallBoth \/ CallKSizeBoth \/ StepBoth \/ UnlockBoth \/ ReturnBoth
    \/ CallNodesBoth \/ NodesBoth \/ ReturnNodesBoth

SpecFresh == InitFresh /\ [][NextFresh]_vars

\* ---------------------------------------------------------------- typing
TypeOK ==
    /\ ksize \in 0..MaxK
    /\ mu \in 0..NumProcs
    /\ nodes.len <= nodes.cap
    /\ nodes.arr = 0 => nodes.cap = 0
    /\ nodes.arr # 0 => nodes.off + nodes.cap = Len(arrays[nodes.arr])

\* ------------------------------------------------------- claim vocabulary
\* The bool or number goroutine p's call has returned.
Ret(p) == IF DOMAIN ret[p] = {"bool"} THEN ret[p].bool ELSE ret[p].int

\* Goroutine p has finished the body of method m and still holds the lock:
\* the bucket is as m leaves it and `entry` is as m found it.
Finished(p, m) == pc[p] = "unlock" /\ op[p] = m

\* Sequence v without its k-th element.
Without(v, k) == SubSeq(v, 1, k - 1) \o SubSeq(v, k + 1, Len(v))

\* Position of id in the latest-Add order, 0 if it was never added.
Pos(id) == IF \E k \in 1..Len(touched) : touched[k] = id
           THEN CHOOSE k \in 1..Len(touched) : touched[k] = id
           ELSE 0

\* C1: for every ksize, in every reachable state of every interleaving of
\* the callers, the bucket stores at most ksize entries, and every value
\* Size() returns is at most KSize().
C1_SizeBound ==
    /\ Len(View) <= ksize
    /\ \A p \in Procs :
          (pc[p] \in {"unlock", "done"} /\ op[p] = "Size") => Ret(p) <= KSize

\* C1 witness: an Add of a new NodeID to a bucket holding ksize entries has
\* finished in the largest bucket.
C1_Witness ==
    \E p \in Procs :
        /\ Finished(p, "Add")
        /\ ksize = MaxK
        /\ Len(entry) = ksize
        /\ ID(arg[p]) \notin IDs(entry)
        /\ Len(View) = ksize

\* C2: no two stored entries have equal NodeIDs.
C2_UniqueIDs ==
    \A i, j \in 1..Len(View) : i # j => ~Equals(ID(View[i]), ID(View[j]))

\* C2 witness: an Add of a NodeID already stored has finished in a bucket
\* with at least two entries.
C2_Witness ==
    \E p \in Procs :
        /\ Finished(p, "Add")
        /\ ID(arg[p]) \in IDs(entry)
        /\ Len(View) >= 2

\* C3: the sequence Nodes() returns is in recency order: of two stored
\* entries the one nearer the head had its latest Add earlier.
C3_RecencyOrder ==
    LET v == ViewOf(arrays, Nodes) IN
    \A i, j \in 1..Len(v) :
        i < j => (Pos(ID(v[i])) # 0 /\ Pos(ID(v[i])) < Pos(ID(v[j])))

\* C3 witness: the head entry has been re-added and is now behind another
\* entry.
C3_Witness ==
    \E p \in Procs :
        /\ Finished(p, "Add")
        /\ Len(entry) >= 2
        /\ ID(entry[1]) = ID(arg[p])
        /\ View[Len(View)] = arg[p]

\* C4: Add of a NodeID not stored, to a bucket holding exactly ksize >= 1
\* entries, drops exactly the head and appends the new peer at the tail;
\* the other entries keep their order and the size stays ksize.
C4_EvictHead ==
    \A p \in Procs :
        (/\ Finished(p, "Add")
         /\ ksize >= 1
         /\ Len(entry) = ksize
         /\ ID(arg[p]) \notin IDs(entry))
        => (View = Tail(entry) \o <<arg[p]>> /\ Len(View) = ksize)

\* C4 witness: such an Add has finished in a bucket of at least two entries.
C4_Witness ==
    \E p \in Procs :
        /\ Finished(p, "Add")
        /\ ksize >= 2
        /\ Len(entry) = ksize
        /\ ID(arg[p]) \notin IDs(entry)
        /\ View[1] = entry[2]

\* C5: Add of a NodeID already stored moves that entry to the tail; nothing
\* else is removed, the size is unchanged and the other entries keep their
\* order, also when the bucket is full.
C5_RefreshMovesToTail ==
    \A p \in Procs :
        (Finished(p, "Add") /\ ID(arg[p]) \in IDs(entry))
        => /\ Len(View) = Len(entry)
           /\ \E k \in 1..Len(entry) :
                 /\ ID(entry[k]) = ID(arg[p])
                 /\ View = Without(entry, k) \o <<arg[p]>>

\* C5 witness: the head of a full bucket has been re-added.
C5_Witness ==
    \E p \in Procs :
        /\ Finished(p, "Add")
        /\ ksize >= 2
        /\ Len(entry) = ksize
        /\ ID(entry[1]) = ID(arg[p])
        /\ View[1] = entry[2]

\* C6: a bucket of capacity 0 is always full, and every Add to it returns
\* normally and leaves it empty.
C6_ZeroCapacityAddIsNoOp ==
    ksize = 0 =>
        /\ ~crashed
        /\ \A p \in Procs :
              /\ pc[p] \notin {"panic", "panicked"}
              /\ (pc[p] \in {"unlock", "done"} /\ op[p] = "IsFull") => Ret(p) = TRUE
        /\ Len(View) = 0

\* C7: with ksize >= 1 no Add fails, and when Add(p) has finished the
\* bucket contains p.ID() and p is the last element of Nodes().
C7_AddAppends ==
    ksize >= 1 =>
        /\ ~crashed
        /\ \A p \in Procs :
              /\ pc[p] \notin {"panic", "panicked"}
              /\ Finished(p, "Add") =>
                    /\ Len(View) >= 1
                    /\ View[Len(View)] = arg[p]
                    /\ \E k \in 1..Len(View) : Equals(ID(View[k]), ID(arg[p]))

\* C7 witness: an Add has finished on a bucket that was emptied by Clear
\* (only the nil slice grows into an array of capacity 1 when ksize > 1).
C7_Witness ==
    \E p \in Procs :
        /\ Finished(p, "Add")
        /\ ksize >= 2
        /\ entry = <<>>
        /\ Nodes.cap = 1
        /\ View = <<arg[p]>>

\* C8: Remove(id) of a stored NodeID removes exactly that entry: the size
\* goes down by one, the id is no longer stored, and the other entries stay
\* in the same order.
C8_RemoveOne ==
    \A p \in Procs :
        (Finished(p, "Remove") /\ ID(arg[p]) \in IDs(entry))
        => /\ Len(View) = Len(entry) - 1
           /\ ID(arg[p]) \notin IDs(View)
           /\ \E k \in 1..Len(entry) :
                 /\ ID(entry[k]) = ID(arg[p])
                 /\ View = Without(entry, k)

\* C8 witness: the head of a bucket of two entries has been removed.
C8_Witness ==
    \E p \in Procs :
        /\ Finished(p, "Remove")
        /\ Len(entry) >= 2
        /\ ID(entry[1]) = ID(arg[p])
        /\ View = Tail(entry)

\* C9: Remove(id) of a NodeID that is not stored returns normally and
\* leaves the entries unchanged; after any Remove(id) the id is not stored,
\* so a second Remove(id) is that case and changes nothing.
C9_RemoveAbsent ==
    \A p \in Procs :
        /\ op[p] = "Remove" => pc[p] \notin {"panic", "panicked"}
        /\ Finished(p, "Remove") =>
              /\ ID(arg[p]) \notin IDs(View)
              /\ ID(arg[p]) \notin IDs(entry) => View = entry

\* C9 witness: Remove of a NodeID that is not stored has finished on a
\* bucket that stores other entries.
C9_Witness ==
    \E p \in Procs :
        /\ Finished(p, "Remove")
        /\ ID(arg[p]) \notin IDs(entry)
        /\ Len(entry) >= 1
        /\ View = entry

\* C10: Contains(id) returns true exactly when some stored entry has that
\* NodeID, and leaves the entries unchanged.
C10_Contains ==
    \A p \in Procs :
        Finished(p, "Contains")
        => /\ Ret(p) = (\E k \in 1..Len(View) : ID(View[k]) = ID(arg[p]))
           /\ View = entry

\* C10 witness: Contains has returned true for an entry that is not the head.
C10_Witness ==
    \E p \in Procs :
        /\ Finished(p, "Contains")
        /\ Len(View) >= 2
        /\ ID(View[1]) # ID(arg[p])
        /\ Ret(p) = TRUE

\* C11: IsFull() returns true exactly when the number of stored entries is
\* at least ksize.
C11_IsFull ==
    \A p \in Procs :
        Finished(p, "IsFull")
        => /\ Ret(p) = (Len(View) >= ksize)
           /\ View = entry

\* C11 witness: IsFull has returned true on a bucket of capacity two or more
\* that holds exactly ksize entries.
C11_Witness ==
    \E p \in Procs :
        /\ Finished(p, "IsFull")
        /\ ksize >= 2
        /\ Len(View) = ksize
        /\ Ret(p) = TRUE

\* C12: Size() returns exactly the number of stored entries, up to the
\* largest capacity a uint8 holds: the conversion to 8 bits never wraps.
C12_SizeExact ==
    \A p \in Procs :
        Finished(p, "Size") => (Ret(p) = Len(View) /\ Len(View) <= Uint8Max)

\* C12 witness: Size() has returned 255 on a bucket of capacity 255 that has
\* already dropped an entry to stay at 255.
C12_Witness ==
    \E p \in Procs :
        /\ Finished(p, "Size")
        /\ ksize = Uint8Max
        /\ Len(touched) > Uint8Max
        /\ Len(View) = Uint8Max
        /\ Ret(p) = Uint8Max

\* C13 as amended: once a Clear call has completed while no Add was waiting
\* for the lock, and no Add has been called since, the bucket is empty:
\* Size() returns 0 and Contains(id) returns false.
C13_ClearEmpties ==
    quiet = "quiet" =>
        /\ Len(View) = 0
        /\ \A p \in Procs :
              /\ Finished(p, "Size") => Ret(p) = 0
              /\ Finished(p, "Contains") => Ret(p) = FALSE

\* C13 witness: Size() has returned 0 after a Clear of a bucket that had
\* been populated; the other goroutine's Clear call has completed too.
C13_Witness ==
    \E p, q \in Procs :
        /\ p # q
        /\ quiet = "quiet"
        /\ Finished(p, "Size")
        /\ Ret(p) = 0
        /\ pc[q] = "done" /\ op[q] = "Clear"
        /\ Len(touched) >= 2

\* C13 as stated: once a Clear call has completed and no Add has started
\* after it, the bucket is empty.
C13_AsStated ==
    quiet \in {"quiet", "pending"} => Len(View) = 0


\* C14: the sequence Nodes() returned is isolated from the bucket: an
\* assignment the caller makes to an element of it leaves the bucket's
\* entry sequence as it was.
C14_NodesIsolated == [][(\E p \in Procs : Mutate(p)) => View' = View]_vars

\* The NodeIDs the bucket held when the lock was taken and holds no more.
Dropped == IDs(entry) \ IDs(View)

\* C15: an id held before an operation is missing after it only if the
\* operation is Remove of that id, Clear, or an Add of an id not held while
\* the bucket is full and the id is the head's; an Add of a held id, an Add
\* to a bucket that is not full, Contains, IsFull and Size drop nothing
\* (the last three leave the sequence as it is throughout).
C15_NoSilentLoss ==
    \A p \in Procs :
        /\ Finished(p, "Add") =>
              Dropped \subseteq
                 (IF ID(arg[p]) \notin IDs(entry) /\ Len(entry) >= ksize
                       /\ Len(entry) >= 1
                  THEN {ID(entry[1])} ELSE {})
        /\ Finished(p, "Remove") => Dropped \subseteq {ID(arg[p])}
        /\ (mu = p /\ op[p] \in {"Contains", "IsFull", "Size"}) => View = entry
        /\ pc[p] = "panic" => View = entry

\* C15 witness: an Add of an id not held has finished on a full bucket of
\* two, and the only id dropped is the one the head had.
C15_Witness ==
    \E p \in Procs :
        /\ Finished(p, "Add")
        /\ Len(entry) = 2 /\ ksize = 2
        /\ ID(arg[p]) \notin IDs(entry)
        /\ Dropped = {ID(entry[1])}
        /\ ID(entry[2]) \in IDs(View)

\* Goroutine p is between Lock and the deferred Unlock.
InBody(p) == pc[p] \notin {"idle", "lock", "done", "panicked"}

\* What one call alone makes of contents v: Add(n), Remove(id).
SeqAdd(v, n, k) ==
    IF ID(n) \in IDs(v)
    THEN Without(v, CHOOSE j \in 1..Len(v) : Equals(ID(v[j]), ID(n))) \o <<n>>
    ELSE IF Len(v) >= k THEN Tail(v) \o <<n>> ELSE v \o <<n>>

SeqRemove(v, id) ==
    IF id \in IDs(v)
    THEN Without(v, CHOOSE j \in 1..Len(v) : Equals(ID(v[j]), id))
    ELSE v

\* The call of p, finished, has taken the contents found at Lock to what the
\* call alone makes of them, and returns what it alone returns on them.
AtomicEffect(p) ==
    /\ Finished(p, "Add") => View = SeqAdd(entry, arg[p], ksize)
    /\ Finished(p, "Remove") => View = SeqRemove(entry, ID(arg[p]))
    /\ Finished(p, "Clear") => View = <<>>
    /\ Finished(p, "Contains") =>
          View = entry /\ Ret(p) = (ID(arg[p]) \in IDs(entry))
    /\ Finished(p, "IsFull") => View = entry /\ Ret(p) = (Len(entry) >= ksize)
    /\ Finished(p, "Size") => View = entry /\ Ret(p) = Len(entry)
    /\ pc[p] = "panic" => op[p] = "Add" /\ ksize = 0 /\ View = entry

\* C16: concurrent Add, Remove, Contains, IsFull, Size and Clear calls are
\* linearizable, each at its Lock: a goroutine is inside a method body
\* exactly while it holds the mutex, so at most one is; each finished call
\* has the effect and the result of running alone on the contents its Lock
\* found; and the contents change only in steps of the goroutine holding
\* the mutex, so what a Lock finds is what the previous holder left and no
\* other caller sees the state in the middle of a call.
C16_Linearizable ==
    /\ [](\A p \in Procs : (InBody(p) <=> mu = p) /\ AtomicEffect(p))
    /\ [][View' # View => (mu \in Procs /\ mu' = mu /\ pc'[mu] # pc[mu])]_vars

\* C16 witness: a refreshing Add has removed the old entry and not yet
\* appended the new one while another goroutine's call waits at Lock.
C16_Witness ==
    \E p, q \in Procs :
        /\ pc[p] = "add_96" /\ pc[q] = "lock"
        /\ Len(View) = Len(entry) - 1
        /\ ID(arg[p]) \notin IDs(View)

\* The contents the call of goroutine q, which holds the mutex, leaves.
After(q) ==
    CASE op[q] = "Add" -> SeqAdd(entry, arg[q], ksize)
      [] op[q] = "Remove" -> SeqRemove(entry, ID(arg[q]))
      [] op[q] = "Clear" -> <<>>

\* C17: a Nodes() call that runs while another goroutine is inside Add,
\* Remove or Clear returns the contents as they were before that call or
\* as they are after it, never a sequence the call has updated in part
\* (stated for callers that have assigned to no element of a returned
\* sequence).
C17_NodesConsistent ==
    [][\A p \in Procs :
          (pc[p] = "nodes_59" /\ pc'[p] = "done" /\ idx[p] = 0 /\ mu \in Procs) =>
              ViewOf(arrays, ret'[p]) \in {entry, After(mu)}]_vars

\* C18: the mutex is released on every way out of a method (return, return
\* from inside the scan loop, panic): it is held only by a goroutine that is
\* inside a method body, so it is free whenever no call is in progress; and
\* under fair scheduling every call that has been made returns, unless a
\* panic has ended the program.
C18_LockReleased ==
    /\ [](mu # 0 => InBody(mu))
    /\ \A p \in Procs : (pc[p] = "lock") ~> (pc[p] = "done" \/ crashed)

\* C18 witness: a call has returned and left the mutex free while the other
\* goroutine's call, made meanwhile, waits at Lock.
C18_Witness ==
    \E p, q \in Procs :
        /\ pc[p] = "done" /\ op[p] = "Remove"
        /\ pc[q] = "lock"
        /\ mu = 0

\* Add(p) has finished; it found the bucket full and p.ID() not in it.
AddedNewToFull(p) ==
    /\ Finished(p, "Add")
    /\ Len(entry) >= ksize
    /\ ID(arg[p]) \notin IDs(entry)

C20_XorSymmetric ==
    \A c, d \in xout :
        (c.f = d.f /\ c.a = d.b /\ c.b = d.a) => c.r = d.r

\* C20 witness: XOR and Distance have both been called both ways round on
\* two NodeIDs that differ in the first and in the last byte.
C20_Witness ==
    /\ xin[1][1] # xin[2][1] /\ xin[1][IDLen] # xin[2][IDLen]
    /\ \A g \in {"XOR", "Distance"} : \A i, j \in 1..2 :
          i # j => \E c \in xout :
                      /\ c.f = g /\ c.a = xin[i] /\ c.b = xin[j]
                      /\ c.r[1] # 0 /\ c.r[IDLen] # 0

\* C21: a.XOR(a) is the all-zero 20-byte value for every NodeID a, and the
\* distance from a node to itself is zero.
C21_XorSelfIsZero ==
    \A c \in xout :
        (c.f \in {"XOR", "Distance"} /\ c.a = c.b) => c.r = ZeroID

\* C21 witness: the distance from a node to itself has been computed for a
\* NodeID with no zero in its first and last bytes.
C21_Witness ==
    \E c \in xout :
        /\ c.f = "Distance" /\ c.a = c.b
        /\ c.a[1] = 255 /\ c.a[IDLen] = 85
        /\ c.r = ZeroID

\* C22: XOR is its own inverse: a.XOR(b).XOR(b) is a for all NodeIDs a, b.
C22_XorInverse ==
    \A c \in xout : c.f = "XOR.XOR" => c.r = c.a

\* C22 witness: XOR has been applied twice with a NodeID b that differs
\* from a in the first and last bytes, neither being zero there.
C22_Witness ==
    \E c \in xout :
        /\ c.f = "XOR.XOR"
        /\ c.a[1] = 85 /\ c.a[IDLen] = 255
        /\ c.b[1] = 255 /\ c.b[IDLen] = 170
        /\ c.r = c.a

\* Bit k (0 = least significant) of byte x.
Bit(x, k) == (x \div (2 ^ k)) % 2

\* C23: n.Distance(m) is the byte-wise XOR of n.ID() and m.ID(): each of
\* the 20 result bytes is a byte, and each of its bits is set exactly when
\* the corresponding bits of the two NodeIDs differ.
C23_DistanceIsBytewiseXor ==
    \A c \in xout :
        c.f = "Distance" =>
            /\ Len(c.r) = IDLen
            /\ \A i \in 1..IDLen :
                  /\ c.r[i] \in 0..Uint8Max
                  /\ \A k \in 0..7 :
                        (Bit(c.r[i], k) = 1) <=> (Bit(c.a[i], k) # Bit(c.b[i], k))

\* C23 witness: the distance between nodes whose NodeIDs begin 0x55 and 0xFF
\* and end 0xAA and 0x55 begins 0xAA and ends 0xFF.
C23_Witness ==
    \E c \in xout :
        /\ c.f = "Distance"
        /\ c.a[1] = 85 /\ c.b[1] = 255
        /\ c.a[IDLen] = 170 /\ c.b[IDLen] = 85
        /\ c.r[1] = 170 /\ c.r[IDLen] = 255

\* C29: a.XOR(b) is the all-zero value exactly when a.Equals(b).
C29_XorZeroIffEqual ==
    \A c \in xout : c.f = "XOR" => ((c.r = ZeroID) <=> Equals(c.a, c.b))

\* C29 witness: XOR has been applied to two NodeIDs that differ in the last
\* byte only, and the result is not zero.
C29_Witness ==
    \E c \in xout :
        /\ c.f = "XOR"
        /\ c.a[1] = c.b[1] /\ c.a[IDLen] # c.b[IDLen]
        /\ c.r # ZeroID /\ c.r[1] = 0

\* The carry into byte i (byte 1 the most significant) when the 20-byte
\* unsigned big-endian numbers x and y are added.
RECURSIVE CarryInto(_, _, _)
CarryInto(x, y, i) ==
    IF i = IDLen THEN 0
    ELSE (x[i + 1] + y[i + 1] + CarryInto(x, y, i + 1)) \div Uint8Mod

\* x + y as a 21-byte unsigned big-endian number.
SumBytes(x, y) ==
    [i \in 1..(IDLen + 1) |->
        IF i = 1 THEN CarryInto(x, y, 0)
        ELSE (x[i - 1] + y[i - 1] + CarryInto(x, y, i - 1)) % Uint8Mod]

\* u <= v for unsigned big-endian numbers of one length.
BytesLE(u, v) ==
    \/ u = v
    \/ \E i \in 1..Len(u) :
          /\ u[i] < v[i]
          /\ \A j \in 1..(i - 1) : u[j] = v[j]

\* C30: read as unsigned big-endian integers, XOR distances satisfy the
\* triangle inequality: a.XOR(c) <= a.XOR(b) + b.XOR(c).
C30_Triangle ==
    \A t \in xout :
        t.f = "XOR3" => BytesLE(<<0>> \o t.ac, SumBytes(t.ab, t.bc))

\* C30 witness: three NodeIDs for which the sum of the two distances
\* carries out of the last byte and out of the first, and the inequality
\* is strict.
C30_Witness ==
    \E t \in xout :
        /\ t.f = "XOR3"
        /\ CarryInto(t.ab, t.bc, IDLen - 1) = 1
        /\ SumBytes(t.ab, t.bc)[1] = 1
        /\ <<0>> \o t.ac # SumBytes(t.ab, t.bc)

\* C25: when Add(p) finds p.ID() in the bucket, the record stored under
\* that NodeID afterwards is p itself, with its address and port, and not
\* the record stored before.
C25_RefreshStoresIncoming ==
    \A p \in Procs :
        (Finished(p, "Add") /\ ID(arg[p]) \in IDs(entry)) =>
            /\ \E k \in 1..Len(View) : View[k] = arg[p]
            /\ \A k \in 1..Len(View) :
                  Equals(ID(View[k]), ID(arg[p])) => View[k] = arg[p]

\* C25 witness: an Add has finished whose NodeID was stored, at the head of
\* a bucket of two, with another address.
C25_Witness ==
    \E p \in Procs :
        /\ Finished(p, "Add")
        /\ Len(entry) = 2
        /\ Equals(ID(entry[1]), ID(arg[p]))
        /\ entry[1].address # arg[p].address
        /\ View = <<entry[2], arg[p]>>

\* C26: a sequence Nodes() has returned is a stable snapshot: as long as
\* its caller holds it (and has assigned to none of its elements), no step
\* of an Add, Remove or Clear changes its elements; its length is part of
\* the value the caller holds.
C26_SnapshotStable ==
    [][\A p \in Procs :
          (op[p] = "Nodes" /\ pc[p] = "done" /\ pc'[p] = "done"
             /\ idx[p] = 0 /\ idx'[p] = 0) =>
              ViewOf(arrays', ret[p]) = ViewOf(arrays, ret[p])]_vars

\* C28: when every goroutine has done Add(p_i) and then Remove(p_i.ID())
\* on a bucket that was empty, with ksize >= 1 and the ids different, the
\* bucket is empty and Size() is 0, whatever the interleaving.
C28_AddRemoveLeavesEmpty ==
    (\A p \in Procs : Ended(p)) => (Len(View) = 0 /\ SizeOf(nodes.len) = 0)

\* C28 witness: all goroutines have ended on a bucket of one, in which the
\* second Add evicted the first goroutine's node before its Remove.
C28_Witness ==
    /\ \A p \in Procs : Ended(p)
    /\ ksize = 1
    /\ Len(touched) = NumProcs
    /\ nodes.arr # 1

\* Record n has the NodeID, address and port NewNode was called with.
AsCreated(n) ==
    /\ ID(n) = NewNodeID(xin.data)
    /\ Address(n) = xin.address
    /\ PortOf(n) = xin.port

\* C24: NewNode never fails, whatever the data (nil included), and returns
\* a record with ID() = NewNodeID(data) and the given address and port; the
\* record has these three values wherever the bucket holds it, through any
\* Add, Remove, Contains, Clear, IsFull or Size that follows.
C24_NewNodeKeepsFields ==
    /\ xout = <<>> => ENABLED CreateNode
    /\ xout # <<>> =>
          /\ AsCreated(xout[1])
          /\ \A k \in 1..Len(View) :
                Equals(ID(View[k]), ID(xout[1])) => AsCreated(View[k])
          /\ \A p \in Procs :
                (op[p] = "Add" /\ Equals(ID(arg[p]), ID(xout[1]))) => AsCreated(arg[p])

\* C24 witness: the node made from nil data sits at the head of a bucket
\* of two after another node was added behind it and a Contains call for
\* it has finished.
C24_Witness ==
    /\ xout # <<>>
    /\ xin.data = <<>>
    /\ Finished(1, "Contains")
    /\ Len(View) = 2
    /\ View[1] = xout[1]
    /\ AsCreated(View[1])

\* The program holds the slice Nodes() returned on each of the two buckets.
HoldsBoth == xin.on /\ xin.kb.holding /\ op[Reader] = "Nodes" /\ pc[Reader] = "done"

\* Once Clear has returned: KSize() is the same on both buckets, and every
\* call that has returned so far returned the same value and left the same
\* entries on both, or panicked on both.
SameAtReturn ==
    xin.on =>
        /\ KSize = xin.kb.ksize
        /\ crashed => xin.kb.panicked
        /\ (~crashed /\ pc[Client] \in {"idle", "done"}) =>
              /\ ~xin.kb.panicked
              /\ View = ViewOf(xin.kb.arrays, xin.kb.nodes)
        /\ (~crashed /\ pc[Client] = "done") => ret[Client] = xout

\* C27: once Clear has returned, the bucket cannot be told from a bucket
\* newly constructed with the same ksize: KSize() is the same, every later
\* Add, Remove, Contains, IsFull and Size returns the same value and leaves
\* the same entries (or panics on both), and the sequence a later Nodes()
\* has returned reads the same on both for as long as it is held.
C27_FreshAfterClear ==
    /\ SameAtReturn
    /\ (~crashed /\ HoldsBoth /\ pc[Client] \in {"idle", "done"}) =>
          ViewOf(arrays, ret[Reader]) = ViewOf(xin.kb.arrays, xin.kb.held)
====
